---- MODULE Spec2Model ----
(***************************************************************************)
(* STM32 DMAv1_MUX helper driver (os/hal/ports/STM32/LLD/DMAv1_MUX/        *)
(* stm32_dma.h): stream allocation, the register-level stream macros and   *)
(* the shared-IRQ dispatcher dmaServeInterrupt().                          *)
(*                                                                         *)
(* Registers are unsigned machine words; the C operators &, |, ~, <<, >>    *)
(* are computed bit by bit.  Three specifications share the variables:     *)
(*   Spec      threads calling dmaStreamAllocate()/dmaStreamRelease();     *)
(*   SpecIrq   one driver programming a stream, the DMA hardware raising   *)
(*             status flags, dmaServeInterrupt() dispatching them;         *)
(*   SpecXfer  one driver running dmaStartMemCopy()/dmaWaitCompletion()    *)
(*             against the DMA hardware counting a transfer down.          *)
(***************************************************************************)
EXTENDS Integers, FiniteSets, Sequences, TLC

(***************************************************************************)
(* Bounds of the model.                                                    *)
(***************************************************************************)
\* Number of threads calling the allocator concurrently.
NumThreads == 2
\* Largest priority value a caller passes (one beyond the valid range).
MaxPriority == 4
\* Largest transaction count written to CNDTR.
MaxCount == 2

(***************************************************************************)
(* Program constants.                                                      *)
(***************************************************************************)
STM32_DMA1_NUM_CHANNELS == 2
STM32_DMA2_NUM_CHANNELS == 1
STM32_DMA_STREAMS == STM32_DMA1_NUM_CHANNELS + STM32_DMA2_NUM_CHANNELS
STM32_DMA_ISR_MASK == 14

STM32_DMA_CR_EN == 1
STM32_DMA_CR_TCIE == 2
STM32_DMA_CR_HTIE == 4
STM32_DMA_CR_TEIE == 8
STM32_DMA_CR_CIRC == 32
STM32_DMA_CR_PINC == 64
STM32_DMA_CR_MINC == 128
STM32_DMA_CR_PSIZE_HWORD == 256
STM32_DMA_CR_DIR_M2M == 16384

STM32_DMA_ISR_TCIF == 2
STM32_DMA_ISR_HTIF == 4
STM32_DMA_ISR_TEIF == 8

\* Width of the register words of the model.  The registers are uint32_t; the
\* model keeps their low 30 bits, the widest word the model checker's integers
\* hold with room for ~ and <<.  Bits 30 and 31 are used by no register here:
\* CCR ends at bit 14 and ISR/IFCR hold four bits per channel.
RegBits == 30
RegMod == 2 ^ RegBits

(***************************************************************************)
(* C integer operators on uint32_t.                                        *)
(***************************************************************************)
RECURSIVE BitAnd(_, _)
BitAnd(a, b) ==
  IF a = 0 \/ b = 0 THEN 0
  ELSE (a % 2) * (b % 2) + 2 * BitAnd(a \div 2, b \div 2)

RECURSIVE BitOr(_, _)
BitOr(a, b) ==
  IF a = 0 THEN b
  ELSE IF b = 0 THEN a
  ELSE (IF a % 2 = 1 \/ b % 2 = 1 THEN 1 ELSE 0) + 2 * BitOr(a \div 2, b \div 2)

\* ~a
BitNot(a) == (RegMod - 1) - a

\* a << k, bits shifted out at the top are lost
ShiftLeft(a, k) == IF k >= RegBits THEN 0 ELSE (a % (2 ^ (RegBits - k))) * (2 ^ k)

ShiftRight(a, k) == a \div (2 ^ k)

\* Bit number b (0 = least significant) of x is set.  Used by the properties
\* only: it reads a register value without the operators above.
BitSet(x, b) == (x \div (2 ^ b)) % 2 = 1

(***************************************************************************)
(* Stream descriptor table.                                                *)
(***************************************************************************)
Streams == 0 .. (STM32_DMA_STREAMS - 1)
NoStream == -1

STM32_DMA_ISR_SHIFT(stream) == (stream - 1) * 4

\* DMA unit (1 or 2) owning the stream with index i.
StreamDma(i) == IF i < STM32_DMA1_NUM_CHANNELS THEN 1 ELSE 2

\* Channel number (1-based) of stream i inside its unit.
StreamChannel(i) ==
  IF i < STM32_DMA1_NUM_CHANNELS THEN i + 1 ELSE i - STM32_DMA1_NUM_CHANNELS + 1

\* _stm32_dma_streams[i]: the fields the macros read.
DmaStream(i) ==
  [dma |-> StreamDma(i),
   shift |-> STM32_DMA_ISR_SHIFT(StreamChannel(i)),
   selfindex |-> i]

DmaUnits == {1, 2}

(***************************************************************************)
(* Inputs.                                                                 *)
(***************************************************************************)
Threads == 1 .. NumThreads
NoThread == 0

\* Each thread is a driver that registers its own callback together with its
\* own opaque parameter; 0 is NULL.
ThreadCallback(t) == [dma_func |-> t, dma_param |-> 10 + t]
Callbacks == {ThreadCallback(t) : t \in Threads}
NullEntry == [dma_func |-> 0, dma_param |-> 0]

Priorities == 0 .. MaxPriority

\* Return values of dmaStreamAllocate() other than a stream: nothing returned
\* yet, NULL for no free stream, and the rejected priority.
NoResult == -1
ResourceExhausted == -2
InvalidPriority == -3

VARIABLES
  allocated,   \* set of stream indexes marked Allocated
  isr_redir,   \* _stm32_dma_isr_redir[]: stream index -> (dma_func, dma_param)
  CCR,         \* channel->CCR per stream
  CNDTR,       \* channel->CNDTR per stream
  CPAR,        \* channel->CPAR per stream
  CMAR,        \* channel->CMAR per stream
  ISR,         \* dma->ISR per DMA unit
  lock,        \* thread inside the allocator's critical section, or NoThread
  thr,         \* per thread: position and locals of the call in progress
  held,        \* per thread: handles returned by Allocate and not yet released
  ret,         \* per thread: what its last dmaStreamAllocate() returned
  irq,         \* dmaServeInterrupt() in progress: position, stream, flags
  last_call,   \* the last callback invocation made by the dispatcher
  psp          \* per thread: position of its call into the cFE PSP hooks

vars == <<allocated, isr_redir, CCR, CNDTR, CPAR, CMAR, ISR, lock, thr, held,
          ret, irq, last_call, psp>>

regs == <<CCR, CNDTR, CPAR, CMAR, ISR>>

Idle ==
  [pc |-> "idle", s |-> NoStream, entry |-> NullEntry, prio |-> 0,
   mode |-> 0, src |-> 0, dst |-> 0, n |-> 0]

\* A thread that is in neither PSP hook.
PspRunning == [pc |-> "run", code |-> 0]

IrqIdle == [pc |-> "idle", s |-> NoStream, flags |-> 0]

NoCall == [s |-> NoStream, dma_func |-> 0, dma_param |-> 0, flags |-> 0]

\* State after dmaInit(): every stream Free, registers at their reset value.
InitCommon ==
  /\ allocated = {}
  /\ isr_redir = [i \in Streams |-> NullEntry]
  /\ CCR = [i \in Streams |-> 0]
  /\ CNDTR = [i \in Streams |-> 0]
  /\ CPAR = [i \in Streams |-> 0]
  /\ CMAR = [i \in Streams |-> 0]
  /\ ISR = [d \in DmaUnits |-> 0]
  /\ lock = NoThread
  /\ thr = [t \in Threads |-> Idle]
  /\ held = [t \in Threads |-> {}]
  /\ ret = [t \in Threads |-> NoResult]
  /\ irq = IrqIdle
  /\ last_call = NoCall
  /\ psp = [t \in Threads |-> PspRunning]

Init == InitCommon

(***************************************************************************)
(* Register-level macros: the value each one writes.                       *)
(***************************************************************************)
\* The transfer-error interrupt enable is left out of the mask.
DisableCCRValueKeepsTEIE(ccr) ==
  BitAnd(ccr, BitNot(BitOr(BitOr(STM32_DMA_CR_TCIE, STM32_DMA_CR_HTIE),
                           STM32_DMA_CR_EN)))

\* dmaStreamDisable: CCR &= ~(TCIE | HTIE | TEIE | EN)
DisableCCRValue(ccr) ==
  BitAnd(ccr, BitNot(BitOr(BitOr(STM32_DMA_CR_TCIE, STM32_DMA_CR_HTIE),
                           BitOr(STM32_DMA_CR_TEIE, STM32_DMA_CR_EN))))

\* The mask is written without the shift to the stream's own bits.
ClearInterruptValueUnshifted(s) == STM32_DMA_ISR_MASK

\* dmaStreamClearInterrupt: the word written to IFCR
ClearInterruptValue(s) == ShiftLeft(STM32_DMA_ISR_MASK, DmaStream(s).shift)

\* Hardware: a 1 written to a bit of IFCR clears the same bit of ISR.
WriteIFCR(isr, word) == BitAnd(isr, BitNot(word))

(***************************************************************************)
(* dmaStreamAllocate() / dmaStreamRelease().                               *)
(***************************************************************************)
\* The upper limit of the range is taken one too high.
ValidPriorityOffByOne(prio) == prio >= 0 /\ prio <= 4

STM32_DMA_IS_VALID_PRIORITY(prio) == prio >= 0 /\ prio <= 3

\* The critical section held by another caller is entered anyway.
LockFreeNoExclusion == TRUE

\* The critical section can be entered.
LockFree == lock = NoThread

Free(i) == i \notin allocated

FreeStreams == {i \in Streams : Free(i)}

\* The scan falls back to the first table entry when no stream is Free.
FirstFreeNoExhaustion ==
  IF FreeStreams = {} THEN 0
  ELSE CHOOSE i \in FreeStreams : \A j \in FreeStreams : i <= j

\* The scan starts from the top of the table for the highest priority.
FirstFreeByPriority ==
  IF FreeStreams = {} THEN NoStream
  ELSE IF lock # NoThread /\ thr[lock].prio = 3
       THEN CHOOSE i \in FreeStreams : \A j \in FreeStreams : i >= j
       ELSE CHOOSE i \in FreeStreams : \A j \in FreeStreams : i <= j

\* First Free stream in table order, NoStream when there is none.
FirstFree ==
  IF FreeStreams = {} THEN NoStream
  ELSE CHOOSE i \in FreeStreams : \A j \in FreeStreams : i <= j

\* Allocate, priority check: a priority outside the range is rejected before
\* anything is touched.
AllocBadPriority(t) ==
  /\ thr[t].pc = "idle"
  /\ irq.pc = "idle"
  /\ \E prio \in Priorities : ~STM32_DMA_IS_VALID_PRIORITY(prio)
  /\ ret' = [ret EXCEPT ![t] = InvalidPriority]
  /\ UNCHANGED <<psp, allocated, isr_redir, regs, lock, thr, held, irq, last_call>>

\* Allocate, entry into the critical section.
AllocLock(t) ==
  /\ thr[t].pc = "idle"
  /\ irq.pc = "idle"
  /\ LockFree
  /\ \E prio \in Priorities :
       /\ STM32_DMA_IS_VALID_PRIORITY(prio)
       /\ thr' = [thr EXCEPT ![t] = [Idle EXCEPT !.pc = "alloc_scan",
                                       !.entry = ThreadCallback(t)]]
  /\ lock' = t
  /\ UNCHANGED <<psp, allocated, isr_redir, regs, held, ret, irq, last_call>>

\* Allocate, the scan of the descriptor table for a Free stream.
AllocScan(t) ==
  /\ thr[t].pc = "alloc_scan"
  /\ thr' = [thr EXCEPT ![t].s = FirstFree,
                        ![t].pc = IF FirstFree = NoStream THEN "alloc_fail"
                                  ELSE "alloc_install"]
  /\ UNCHANGED <<psp, allocated, isr_redir, regs, lock, held, ret, irq, last_call>>

\* Allocate, success: the entry is installed and the stream marked Allocated.
AllocInstall(t) ==
  /\ thr[t].pc = "alloc_install"
  /\ isr_redir' = [isr_redir EXCEPT ![thr[t].s] = thr[t].entry]
  /\ allocated' = allocated \cup {thr[t].s}
  /\ thr' = [thr EXCEPT ![t].pc = "alloc_unlock"]
  /\ UNCHANGED <<psp, regs, lock, held, ret, irq, last_call>>

\* Allocate, leaving the critical section and returning the handle.
AllocUnlock(t) ==
  /\ thr[t].pc = "alloc_unlock"
  /\ lock' = IF lock = t THEN NoThread ELSE lock
  /\ held' = [held EXCEPT ![t] = @ \cup {thr[t].s}]
  /\ ret' = [ret EXCEPT ![t] = thr[t].s]
  /\ thr' = [thr EXCEPT ![t] = Idle]
  /\ UNCHANGED <<psp, allocated, isr_redir, regs, irq, last_call>>

\* Allocate, no Free stream: nothing is written, the call returns no handle.
AllocFail(t) ==
  /\ thr[t].pc = "alloc_fail"
  /\ lock' = IF lock = t THEN NoThread ELSE lock
  /\ ret' = [ret EXCEPT ![t] = ResourceExhausted]
  /\ thr' = [thr EXCEPT ![t] = Idle]
  /\ UNCHANGED <<psp, allocated, isr_redir, regs, held, irq, last_call>>

\* Release, entry into the critical section with a handle the caller holds.
ReleaseLock(t) ==
  /\ thr[t].pc = "idle"
  /\ irq.pc = "idle"
  /\ LockFree
  /\ \E s \in held[t] :
       thr' = [thr EXCEPT ![t] = [Idle EXCEPT !.pc = "release_body", !.s = s]]
  /\ lock' = t
  /\ UNCHANGED <<psp, allocated, isr_redir, regs, held, ret, irq, last_call>>

\* The Redirection Entry is left as it was.
ReleasedEntryKept(e) == e

\* The Redirection Entry a released stream is left with.
ReleasedEntry(e) == NullEntry

\* The stream stays marked Allocated.
MarkFreeSkipped(mask, s) == mask

\* The availability state with stream s marked Free.
MarkFree(mask, s) == mask \ {s}

\* Release: the stream is disabled, its entry cleared, and it is marked Free.
ReleaseBody(t) ==
  /\ thr[t].pc = "release_body"
  /\ LET s == thr[t].s IN
       /\ CCR' = [CCR EXCEPT ![s] = DisableCCRValue(CCR[s])]
       /\ ISR' = [ISR EXCEPT ![DmaStream(s).dma] = WriteIFCR(@, ClearInterruptValue(s))]
       /\ isr_redir' = [isr_redir EXCEPT ![s] = ReleasedEntry(@)]
       /\ allocated' = MarkFree(allocated, s)
  /\ thr' = [thr EXCEPT ![t].pc = "release_unlock"]
  /\ UNCHANGED <<psp, CNDTR, CPAR, CMAR, lock, held, ret, irq, last_call>>

\* Release, leaving the critical section: the handle is no longer valid.
ReleaseUnlock(t) ==
  /\ thr[t].pc = "release_unlock"
  /\ lock' = IF lock = t THEN NoThread ELSE lock
  /\ held' = [held EXCEPT ![t] = @ \ {thr[t].s}]
  /\ thr' = [thr EXCEPT ![t] = Idle]
  /\ UNCHANGED <<psp, allocated, isr_redir, regs, ret, irq, last_call>>

Next ==
  \E t \in Threads :
    \/ AllocBadPriority(t)
    \/ AllocLock(t)
    \/ AllocScan(t)
    \/ AllocInstall(t)
    \/ AllocUnlock(t)
    \/ AllocFail(t)
    \/ ReleaseLock(t)
    \/ ReleaseBody(t)
    \/ ReleaseUnlock(t)

Spec == Init /\ [][Next]_vars

(***************************************************************************)
(* dmaStreamAllocate() seen from one caller, with the priority it passes   *)
(* kept in the locals of the call: the call, then the priority check, then *)
(* the critical section as above.                                          *)
(***************************************************************************)
\* Allocate is called with a priority and the caller's callback and param.
AllocCall(t) ==
  /\ thr[t].pc = "idle"
  /\ irq.pc = "idle"
  /\ \E prio \in Priorities :
       thr' = [thr EXCEPT ![t] = [Idle EXCEPT !.pc = "alloc_check",
                                       !.prio = prio,
                                       !.entry = ThreadCallback(t)]]
  /\ UNCHANGED <<psp, allocated, isr_redir, regs, lock, held, ret, irq, last_call>>

\* The priority check fails: the call returns before anything is touched.
AllocRejected(t) ==
  /\ thr[t].pc = "alloc_check"
  /\ ~STM32_DMA_IS_VALID_PRIORITY(thr[t].prio)
  /\ ret' = [ret EXCEPT ![t] = InvalidPriority]
  /\ thr' = [thr EXCEPT ![t] = Idle]
  /\ UNCHANGED <<psp, allocated, isr_redir, regs, lock, held, irq, last_call>>

\* The priority check passes: the call enters the critical section.
AllocAccepted(t) ==
  /\ thr[t].pc = "alloc_check"
  /\ STM32_DMA_IS_VALID_PRIORITY(thr[t].prio)
  /\ irq.pc = "idle"
  /\ LockFree
  /\ thr' = [thr EXCEPT ![t].pc = "alloc_scan"]
  /\ lock' = t
  /\ UNCHANGED <<psp, allocated, isr_redir, regs, held, ret, irq, last_call>>

\* The thread whose calls are followed: the first one.
Driver == CHOOSE t \in Threads : \A u \in Threads : t <= u

NextCall ==
  \E t \in {Driver} :
    \/ AllocCall(t)
    \/ AllocRejected(t)
    \/ AllocAccepted(t)
    \/ AllocScan(t)
    \/ AllocInstall(t)
    \/ AllocUnlock(t)
    \/ AllocFail(t)
    \/ ReleaseLock(t)
    \/ ReleaseBody(t)
    \/ ReleaseUnlock(t)

SpecCall == Init /\ [][NextCall]_vars

(***************************************************************************)
(* Register-level macros as steps of the thread that owns the handle.      *)
(* A thread runs only while no interrupt handler is running (irq idle).    *)
(***************************************************************************)
\* Mode words a driver passes to dmaStreamSetMode().
IrqModes ==
  {0,
   STM32_DMA_CR_TCIE,
   STM32_DMA_CR_TCIE + STM32_DMA_CR_TEIE,
   STM32_DMA_CR_HTIE + STM32_DMA_CR_TEIE + STM32_DMA_CR_CIRC,
   STM32_DMA_CR_TCIE + STM32_DMA_CR_HTIE + STM32_DMA_CR_TEIE
     + STM32_DMA_CR_PSIZE_HWORD}

\* Mode words a driver passes to dmaStartMemCopy().
CopyModes ==
  {0,
   STM32_DMA_CR_TCIE,
   STM32_DMA_CR_TCIE + STM32_DMA_CR_HTIE + STM32_DMA_CR_PSIZE_HWORD}

SourceAddrs == {1, 2}
DestAddrs == {3}
Counts == 1 .. MaxCount

CanRun(t) == thr[t].pc = "idle" /\ irq.pc = "idle"

\* The stream's three status bits of ISR, aligned to bit zero.
StreamFlags(s) ==
  BitAnd(ShiftRight(ISR[DmaStream(s).dma], DmaStream(s).shift), STM32_DMA_ISR_MASK)

\* dmaStreamSetMode
SetMode(t) ==
  /\ CanRun(t)
  /\ \E s \in held[t], mode \in IrqModes : CCR' = [CCR EXCEPT ![s] = mode]
  /\ UNCHANGED <<psp, allocated, isr_redir, CNDTR, CPAR, CMAR, ISR, lock, thr, held,
                 ret, irq, last_call>>

\* The control register is overwritten with the enable bit alone.
EnableCCRValueOnlyEN(ccr) == STM32_DMA_CR_EN

\* dmaStreamEnable: CCR |= EN
EnableCCRValue(ccr) == BitOr(ccr, STM32_DMA_CR_EN)

Enable(t) ==
  /\ CanRun(t)
  /\ \E s \in held[t] : CCR' = [CCR EXCEPT ![s] = EnableCCRValue(CCR[s])]
  /\ UNCHANGED <<psp, allocated, isr_redir, CNDTR, CPAR, CMAR, ISR, lock, thr, held,
                 ret, irq, last_call>>

\* dmaStreamClearInterrupt
ClearInterrupt(t) ==
  /\ CanRun(t)
  /\ \E s \in held[t] :
       ISR' = [ISR EXCEPT ![DmaStream(s).dma] = WriteIFCR(@, ClearInterruptValue(s))]
  /\ UNCHANGED <<psp, allocated, isr_redir, CCR, CNDTR, CPAR, CMAR, lock, thr, held,
                 ret, irq, last_call>>

\* The flags are flushed first and the enable bits cleared afterwards.
DisableOrderFlushFirst == <<"IFCR", "CCR">>

\* dmaStreamDisable: the registers it writes, in program order.
DisableOrder == <<"CCR", "IFCR">>

\* The k-th register write of dmaStreamDisable on stream s.
DisableWrite(k, s) ==
  IF DisableOrder[k] = "CCR"
  THEN /\ CCR' = [CCR EXCEPT ![s] = DisableCCRValue(CCR[s])]
       /\ ISR' = ISR
  ELSE /\ ISR' = [ISR EXCEPT ![DmaStream(s).dma] = WriteIFCR(@, ClearInterruptValue(s))]
       /\ CCR' = CCR

\* dmaStreamDisable, first write
DisableFirst(t) ==
  /\ CanRun(t)
  /\ \E s \in held[t] :
       /\ DisableWrite(1, s)
       /\ thr' = [thr EXCEPT ![t] = [Idle EXCEPT !.pc = "disable_2", !.s = s]]
  /\ UNCHANGED <<psp, allocated, isr_redir, CNDTR, CPAR, CMAR, lock, held, ret, irq,
                 last_call>>

\* dmaStreamDisable, second write
DisableSecond(t) ==
  /\ thr[t].pc = "disable_2"
  /\ irq.pc = "idle"
  /\ DisableWrite(2, thr[t].s)
  /\ thr' = [thr EXCEPT ![t] = Idle]
  /\ UNCHANGED <<psp, allocated, isr_redir, CNDTR, CPAR, CMAR, lock, held, ret, irq,
                 last_call>>

\* The peripheral-increment bit is left out.
MemCopyModeNoPINC(mode) ==
  BitOr(BitOr(mode, STM32_DMA_CR_MINC), BitOr(STM32_DMA_CR_DIR_M2M, STM32_DMA_CR_EN))

\* dmaStartMemCopy: the word written to CCR
MemCopyMode(mode) ==
  BitOr(BitOr(BitOr(mode, STM32_DMA_CR_MINC), STM32_DMA_CR_PINC),
        BitOr(STM32_DMA_CR_DIR_M2M, STM32_DMA_CR_EN))

\* The mode word with the enable bit is written together with the first
\* register instead of last.
MemCopyCPAREnablesFirst(t) ==
  /\ CanRun(t)
  /\ \E s \in held[t], mode \in CopyModes, src \in SourceAddrs,
        dst \in DestAddrs, n \in Counts :
       /\ CPAR' = [CPAR EXCEPT ![s] = src]
       /\ CCR' = [CCR EXCEPT ![s] = MemCopyMode(mode)]
       /\ thr' = [thr EXCEPT ![t] = [Idle EXCEPT !.pc = "memcopy_cmar", !.s = s,
                                       !.mode = mode, !.src = src, !.dst = dst,
                                       !.n = n]]
  /\ UNCHANGED <<psp, allocated, isr_redir, CNDTR, CMAR, ISR, lock, held, ret,
                 irq, last_call>>

\* dmaStartMemCopy, dmaStreamSetPeripheral(dmastp, src)
MemCopyCPAR(t) ==
  /\ CanRun(t)
  /\ \E s \in held[t], mode \in CopyModes, src \in SourceAddrs,
        dst \in DestAddrs, n \in Counts :
       /\ CPAR' = [CPAR EXCEPT ![s] = src]
       /\ thr' = [thr EXCEPT ![t] = [Idle EXCEPT !.pc = "memcopy_cmar", !.s = s,
                                       !.mode = mode, !.src = src, !.dst = dst,
                                       !.n = n]]
  /\ UNCHANGED <<psp, allocated, isr_redir, CCR, CNDTR, CMAR, ISR, lock, held, ret,
                 irq, last_call>>

\* dmaStartMemCopy, dmaStreamSetMemory0(dmastp, dst)
MemCopyCMAR(t) ==
  /\ thr[t].pc = "memcopy_cmar"
  /\ irq.pc = "idle"
  /\ CMAR' = [CMAR EXCEPT ![thr[t].s] = thr[t].dst]
  /\ thr' = [thr EXCEPT ![t].pc = "memcopy_cndtr"]
  /\ UNCHANGED <<psp, allocated, isr_redir, CCR, CNDTR, CPAR, ISR, lock, held, ret,
                 irq, last_call>>

\* dmaStartMemCopy, dmaStreamSetTransactionSize(dmastp, n)
MemCopyCNDTR(t) ==
  /\ thr[t].pc = "memcopy_cndtr"
  /\ irq.pc = "idle"
  /\ CNDTR' = [CNDTR EXCEPT ![thr[t].s] = thr[t].n]
  /\ thr' = [thr EXCEPT ![t].pc = "memcopy_ccr"]
  /\ UNCHANGED <<psp, allocated, isr_redir, CCR, CPAR, CMAR, ISR, lock, held, ret,
                 irq, last_call>>

\* dmaStartMemCopy, dmaStreamSetMode(dmastp, mode | MINC | PINC | M2M | EN)
MemCopyCCR(t) ==
  /\ thr[t].pc = "memcopy_ccr"
  /\ irq.pc = "idle"
  /\ CCR' = [CCR EXCEPT ![thr[t].s] = MemCopyMode(thr[t].mode)]
  /\ thr' = [thr EXCEPT ![t].pc = "idle"]
  /\ UNCHANGED <<psp, allocated, isr_redir, CNDTR, CPAR, CMAR, ISR, lock, held, ret,
                 irq, last_call>>

\* The loop is left whatever the counter reads.
WaitLoopDoneAlways(cndtr) == TRUE

\* The loop is never left, not even with the counter at zero.
WaitLoopDoneNever(cndtr) == FALSE

\* dmaWaitCompletion: the loop "while (CNDTR > 0U) ;" is left
WaitLoopDone(cndtr) == ~(cndtr > 0)

\* dmaWaitCompletion is called
WaitEnter(t) ==
  /\ CanRun(t)
  /\ \E s \in held[t] :
       thr' = [thr EXCEPT ![t] = [Idle EXCEPT !.pc = "wait_poll", !.s = s]]
  /\ UNCHANGED <<psp, allocated, isr_redir, regs, lock, held, ret, irq, last_call>>

\* dmaWaitCompletion, one turn of the loop with the counter still above zero
WaitSpin(t) ==
  /\ thr[t].pc = "wait_poll"
  /\ irq.pc = "idle"
  /\ ~WaitLoopDone(CNDTR[thr[t].s])
  /\ UNCHANGED vars

\* dmaWaitCompletion, the counter is read as zero and the loop ends
WaitExitLoop(t) ==
  /\ thr[t].pc = "wait_poll"
  /\ irq.pc = "idle"
  /\ WaitLoopDone(CNDTR[thr[t].s])
  /\ thr' = [thr EXCEPT ![t].pc = "wait_disable_1"]
  /\ UNCHANGED <<psp, allocated, isr_redir, regs, lock, held, ret, irq, last_call>>

\* dmaWaitCompletion, dmaStreamDisable first write
WaitDisableFirst(t) ==
  /\ thr[t].pc = "wait_disable_1"
  /\ irq.pc = "idle"
  /\ DisableWrite(1, thr[t].s)
  /\ thr' = [thr EXCEPT ![t].pc = "wait_disable_2"]
  /\ UNCHANGED <<psp, allocated, isr_redir, CNDTR, CPAR, CMAR, lock, held, ret, irq,
                 last_call>>

\* dmaWaitCompletion, dmaStreamDisable second write, then return
WaitDisableSecond(t) ==
  /\ thr[t].pc = "wait_disable_2"
  /\ irq.pc = "idle"
  /\ DisableWrite(2, thr[t].s)
  /\ thr' = [thr EXCEPT ![t] = [Idle EXCEPT !.pc = "wait_done", !.s = thr[t].s]]
  /\ UNCHANGED <<psp, allocated, isr_redir, CNDTR, CPAR, CMAR, lock, held, ret, irq,
                 last_call>>

\* The caller carries on after dmaWaitCompletion has returned.
WaitReturn(t) ==
  /\ thr[t].pc = "wait_done"
  /\ irq.pc = "idle"
  /\ thr' = [thr EXCEPT ![t] = Idle]
  /\ UNCHANGED <<psp, allocated, isr_redir, regs, lock, held, ret, irq, last_call>>

(***************************************************************************)
(* DMA hardware.                                                           *)
(***************************************************************************)
Enabled(s) == BitAnd(CCR[s], STM32_DMA_CR_EN) # 0

StatusFlags == {STM32_DMA_ISR_TCIF, STM32_DMA_ISR_HTIF, STM32_DMA_ISR_TEIF}

\* An enabled channel raises one of its status flags.
HwRaise(s) ==
  /\ Enabled(s)
  /\ \E f \in StatusFlags :
       /\ BitAnd(StreamFlags(s), f) = 0
       /\ ISR' = [ISR EXCEPT ![DmaStream(s).dma] =
                    BitOr(@, ShiftLeft(f, DmaStream(s).shift))]
  /\ UNCHANGED <<psp, allocated, isr_redir, CCR, CNDTR, CPAR, CMAR, lock, thr, held,
                 ret, irq, last_call>>

\* An enabled channel moves one data unit: the counter goes down by one and
\* transfer-complete is raised when it reaches zero.
HwTransfer(s) ==
  /\ Enabled(s)
  /\ CNDTR[s] > 0
  /\ CNDTR' = [CNDTR EXCEPT ![s] = @ - 1]
  /\ ISR' = IF CNDTR[s] = 1
            THEN [ISR EXCEPT ![DmaStream(s).dma] =
                    BitOr(@, ShiftLeft(STM32_DMA_ISR_TCIF, DmaStream(s).shift))]
            ELSE ISR
  /\ UNCHANGED <<psp, allocated, isr_redir, CCR, CPAR, CMAR, lock, thr, held, ret,
                 irq, last_call>>

(***************************************************************************)
(* dmaServeInterrupt(dmastp), run in interrupt context: it preempts the    *)
(* threads, and is held off while a thread is inside the critical section. *)
(***************************************************************************)
\* The flags passed on are only those whose interrupt is enabled.
ReadFlagsFiltered(s) == BitAnd(StreamFlags(s), CCR[s])

\* flags = (dma->ISR >> shift) & STM32_DMA_ISR_MASK
ReadFlags(s) == StreamFlags(s)

\* if (flags & channel->CCR)
FlagsEnabled(flags, ccr) == BitAnd(flags, ccr) # 0

\* if (_stm32_dma_isr_redir[idx].dma_func)
CallbackRegistered(e) == e.dma_func # 0

\* Nothing is acknowledged.
AckValueNone(flags, s) == 0

\* Every status flag of the stream is acknowledged, read or not.
AckValueAllFlags(flags, s) == ShiftLeft(STM32_DMA_ISR_MASK, DmaStream(s).shift)

\* The word written to IFCR: flags << shift
AckValue(flags, s) == ShiftLeft(flags, DmaStream(s).shift)

\* The handler is entered for stream s and reads the status register.
IrqRead(s) ==
  /\ irq.pc = "idle"
  /\ lock = NoThread
  /\ irq' = [pc |-> "test", s |-> s, flags |-> ReadFlags(s)]
  /\ UNCHANGED <<psp, allocated, isr_redir, regs, lock, thr, held, ret, last_call>>

\* No enabled flag is pending: nothing is written, the handler returns.
IrqSkip ==
  /\ irq.pc = "test"
  /\ ~FlagsEnabled(irq.flags, CCR[irq.s])
  /\ irq' = IrqIdle
  /\ UNCHANGED <<psp, allocated, isr_redir, regs, lock, thr, held, ret, last_call>>

\* dma->IFCR = flags << shift
IrqAck ==
  /\ irq.pc = "test"
  /\ FlagsEnabled(irq.flags, CCR[irq.s])
  /\ ISR' = [ISR EXCEPT ![DmaStream(irq.s).dma] =
               WriteIFCR(@, AckValue(irq.flags, irq.s))]
  /\ irq' = [irq EXCEPT !.pc = "call"]
  /\ UNCHANGED <<psp, allocated, isr_redir, CCR, CNDTR, CPAR, CMAR, lock, thr, held,
                 ret, last_call>>

\* The registered callback is invoked with its parameter and the flags.
IrqCall ==
  /\ irq.pc = "call"
  /\ CallbackRegistered(isr_redir[DmaStream(irq.s).selfindex])
  /\ last_call' = [s |-> irq.s,
                   dma_func |-> isr_redir[DmaStream(irq.s).selfindex].dma_func,
                   dma_param |-> isr_redir[DmaStream(irq.s).selfindex].dma_param,
                   flags |-> irq.flags]
  /\ irq' = IrqIdle
  /\ UNCHANGED <<psp, allocated, isr_redir, regs, lock, thr, held, ret>>

\* No callback is registered: the interrupt is dropped silently.
IrqNoCallback ==
  /\ irq.pc = "call"
  /\ ~CallbackRegistered(isr_redir[DmaStream(irq.s).selfindex])
  /\ irq' = IrqIdle
  /\ UNCHANGED <<psp, allocated, isr_redir, regs, lock, thr, held, ret, last_call>>

(***************************************************************************)
(* SpecIrq and SpecXfer start once a driver thread has obtained stream h   *)
(* from dmaStreamAllocate() with its callback, every other stream Free.    *)
(***************************************************************************)
\* The callback and parameter of the thread that owns the handle.
DriverCallback == ThreadCallback(Driver)

InitDriver ==
  \E h \in Streams :
    /\ allocated = {h}
    /\ isr_redir = [i \in Streams |-> IF i = h THEN DriverCallback ELSE NullEntry]
    /\ CCR = [i \in Streams |-> 0]
    /\ CNDTR = [i \in Streams |-> 0]
    /\ CPAR = [i \in Streams |-> 0]
    /\ CMAR = [i \in Streams |-> 0]
    /\ ISR = [d \in DmaUnits |-> 0]
    /\ lock = NoThread
    /\ thr = [t \in Threads |-> Idle]
    /\ held = [t \in Threads |-> IF t = Driver THEN {h} ELSE {}]
    /\ ret = [t \in Threads |-> IF t = Driver THEN h ELSE NoResult]
    /\ irq = IrqIdle
    /\ last_call = NoCall
    /\ psp = [t \in Threads |-> PspRunning]

NextIrq ==
  \/ \E t \in Threads :
       \/ SetMode(t)
       \/ Enable(t)
       \/ ClearInterrupt(t)
       \/ DisableFirst(t)
       \/ DisableSecond(t)
  \/ \E s \in Streams :
       \/ HwRaise(s)
       \/ IrqRead(s)
  \/ IrqSkip
  \/ IrqAck
  \/ IrqCall

SpecIrq == InitDriver /\ [][NextIrq]_vars

NextXfer ==
  \/ \E t \in Threads :
       \/ MemCopyCPAR(t)
       \/ MemCopyCMAR(t)
       \/ MemCopyCNDTR(t)
       \/ MemCopyCCR(t)
       \/ WaitEnter(t)
       \/ WaitSpin(t)
       \/ WaitExitLoop(t)
       \/ WaitDisableFirst(t)
       \/ WaitDisableSecond(t)
       \/ WaitReturn(t)
       \/ DisableFirst(t)
       \/ DisableSecond(t)
  \/ \E s \in Streams : HwTransfer(s)

SpecXfer == InitDriver /\ [][NextXfer]_vars

\* SpecXfer with progress: an enabled channel with data left keeps moving
\* data, and a thread inside dmaWaitCompletion keeps running, so it leaves
\* the loop once the counter reads zero and goes on to disable the stream.
FairXfer ==
  /\ \A s \in Streams : WF_vars(HwTransfer(s))
  /\ \A t \in Threads :
       /\ WF_vars(WaitExitLoop(t))
       /\ WF_vars(WaitDisableFirst(t))
       /\ WF_vars(WaitDisableSecond(t))

SpecXferFair == InitDriver /\ [][NextXfer]_vars /\ FairXfer

(***************************************************************************)
(* SpecShared: two driver threads hold one stream each, the first two of   *)
(* the table, which share the status register of the first DMA unit; each  *)
(* programs and enables its stream and clears its interrupt flags while    *)
(* the other stream runs.                                                  *)
(***************************************************************************)
SharedStreams == {i \in Streams : StreamDma(i) = 1 /\ StreamChannel(i) <= 2}

\* The thread that holds shared stream i.
SharedOwner(i) == StreamChannel(i)

InitShared ==
  /\ allocated = SharedStreams
  /\ isr_redir = [i \in Streams |->
                    IF i \in SharedStreams THEN ThreadCallback(SharedOwner(i))
                    ELSE NullEntry]
  /\ CCR = [i \in Streams |-> 0]
  /\ CNDTR = [i \in Streams |-> 0]
  /\ CPAR = [i \in Streams |-> 0]
  /\ CMAR = [i \in Streams |-> 0]
  /\ ISR = [d \in DmaUnits |-> 0]
  /\ lock = NoThread
  /\ thr = [t \in Threads |-> Idle]
  /\ held = [t \in Threads |-> {i \in SharedStreams : SharedOwner(i) = t}]
  /\ ret = [t \in Threads |->
              IF \E i \in SharedStreams : SharedOwner(i) = t
              THEN CHOOSE i \in SharedStreams : SharedOwner(i) = t
              ELSE NoResult]
  /\ irq = IrqIdle
  /\ last_call = NoCall
  /\ psp = [t \in Threads |-> PspRunning]

NextShared ==
  \/ \E t \in Threads :
       \/ SetMode(t)
       \/ Enable(t)
       \/ ClearInterrupt(t)
  \/ \E s \in Streams : HwRaise(s)

SpecShared == InitShared /\ [][NextShared]_vars

(***************************************************************************)
(* cfe_psp_chibios.c: the platform hooks CFE_PSP_Restart and CFE_PSP_Panic *)
(* as called by threads.  chSysHalt() stops the whole system: once a       *)
(* thread is inside it no thread takes a step any more.                    *)
(***************************************************************************)
\* Arguments the callers pass: reset types and error codes.
ResetTypes == {1, 2}
ErrorCodes == {-1, 0, 1}

\* Some thread is inside chSysHalt().
SystemHalted == \E t \in Threads : psp[t].pc = "halted"

\* A thread calls CFE_PSP_Restart(reset_type).
PspCallRestart(t) ==
  /\ ~SystemHalted
  /\ psp[t].pc = "run"
  /\ \E reset_type \in ResetTypes :
       psp' = [psp EXCEPT ![t] = [pc |-> "restart", code |-> reset_type]]
  /\ UNCHANGED <<allocated, isr_redir, regs, lock, thr, held, ret, irq, last_call>>

\* The body of CFE_PSP_Restart: (void)reset_type; and the function ends.
PspRestartBody(t) ==
  /\ ~SystemHalted
  /\ psp[t].pc = "restart"
  /\ psp' = [psp EXCEPT ![t].pc = "returned"]
  /\ UNCHANGED <<allocated, isr_redir, regs, lock, thr, held, ret, irq, last_call>>

\* A thread calls CFE_PSP_Panic(ErrorCode).
PspCallPanic(t) ==
  /\ ~SystemHalted
  /\ psp[t].pc = "run"
  /\ \E ErrorCode \in ErrorCodes :
       psp' = [psp EXCEPT ![t] = [pc |-> "panic", code |-> ErrorCode]]
  /\ UNCHANGED <<allocated, isr_redir, regs, lock, thr, held, ret, irq, last_call>>

\* The body of CFE_PSP_Panic: chSysHalt((char *)ErrorCode), which stays.
PspPanicBody(t) ==
  /\ ~SystemHalted
  /\ psp[t].pc = "panic"
  /\ psp' = [psp EXCEPT ![t].pc = "halted"]
  /\ UNCHANGED <<allocated, isr_redir, regs, lock, thr, held, ret, irq, last_call>>

\* The caller runs its next statement after a hook has returned to it.
PspCallerContinues(t) ==
  /\ ~SystemHalted
  /\ psp[t].pc = "returned"
  /\ psp' = [psp EXCEPT ![t] = PspRunning]
  /\ UNCHANGED <<allocated, isr_redir, regs, lock, thr, held, ret, irq, last_call>>

NextPsp ==
  \E t \in Threads :
    \/ PspCallRestart(t)
    \/ PspRestartBody(t)
    \/ PspCallPanic(t)
    \/ PspPanicBody(t)
    \/ PspCallerContinues(t)

SpecPsp == Init /\ [][NextPsp]_vars

(***************************************************************************)
(* SpecRel: Allocate, Release and the dispatcher together.  The threads    *)
(* take turns with the DMA: a thread allocates when no stream is in use,   *)
(* programs and enables its stream, and releases it; the hardware raises   *)
(* status flags at any time, also for a channel that is no longer enabled. *)
(* The handler's test of the callback (line 369) and its call (line 370)   *)
(* are separate steps here.                                                *)
(***************************************************************************)
\* A status flag raised late, by a channel that is not enabled any more.
HwRaiseLate(s) ==
  /\ ~Enabled(s)
  /\ s \in {ret[t] : t \in Threads}
  /\ \E f \in StatusFlags :
       /\ BitAnd(StreamFlags(s), f) = 0
       /\ ISR' = [ISR EXCEPT ![DmaStream(s).dma] =
                    BitOr(@, ShiftLeft(f, DmaStream(s).shift))]
  /\ UNCHANGED <<psp, allocated, isr_redir, CCR, CNDTR, CPAR, CMAR, lock, thr, held,
                 ret, irq, last_call>>

\* The parameter is taken from the entry of the neighbouring stream.
InvokedEntryMixed(idx) ==
  [dma_func |-> isr_redir[idx].dma_func,
   dma_param |-> isr_redir[(idx + 1) % STM32_DMA_STREAMS].dma_param]

\* _stm32_dma_isr_redir[idx].dma_func(_stm32_dma_isr_redir[idx].dma_param, ..)
InvokedEntry(idx) ==
  [dma_func |-> isr_redir[idx].dma_func,
   dma_param |-> isr_redir[idx].dma_param]

\* if (_stm32_dma_isr_redir[idx].dma_func): a callback is registered.
IrqCheck ==
  /\ irq.pc = "call"
  /\ CallbackRegistered(isr_redir[DmaStream(irq.s).selfindex])
  /\ irq' = [irq EXCEPT !.pc = "invoke"]
  /\ UNCHANGED <<psp, allocated, isr_redir, regs, lock, thr, held, ret, last_call>>

\* The call itself: function and parameter are read from the entry again.
IrqInvoke ==
  /\ irq.pc = "invoke"
  /\ last_call' = [s |-> irq.s,
                   dma_func |-> InvokedEntry(DmaStream(irq.s).selfindex).dma_func,
                   dma_param |-> InvokedEntry(DmaStream(irq.s).selfindex).dma_param,
                   flags |-> irq.flags]
  /\ irq' = IrqIdle
  /\ UNCHANGED <<psp, allocated, isr_redir, regs, lock, thr, held, ret>>

NextRel ==
  \/ \E t \in Threads :
       \/ allocated = {} /\ AllocLock(t)
       \/ AllocScan(t)
       \/ AllocInstall(t)
       \/ AllocUnlock(t)
       \/ SetMode(t)
       \/ Enable(t)
       \/ ReleaseLock(t)
       \/ ReleaseBody(t)
       \/ ReleaseUnlock(t)
  \/ \E s \in Streams :
       \/ HwRaise(s)
       \/ HwRaiseLate(s)
       \/ IrqRead(s)
  \/ IrqSkip
  \/ IrqAck
  \/ IrqCheck
  \/ IrqInvoke

SpecRel == Init /\ [][NextRel]_vars

(***************************************************************************)
(* Properties of the allocator (checked under Spec).                       *)
(***************************************************************************)
\* Handles returned by Allocate and not yet released, over all threads.
Outstanding == UNION {held[t] : t \in Threads}

\* No Allocate or Release call is in progress.
Quiescent == \A t \in Threads : thr[t].pc = "idle"

\* C1: in every interleaving of Allocate and Release calls of several threads
\* each stream is held by at most one outstanding handle: no two threads hold
\* the same stream, and a handle about to be returned is held by nobody.
C1_ExclusiveHandles ==
  /\ \A t1, t2 \in Threads : t1 # t2 => held[t1] \cap held[t2] = {}
  /\ \A t, u \in Threads : thr[t].pc = "alloc_unlock" => thr[t].s \notin held[u]

\* Two threads hold one stream each, both obtained by Allocate.
C1_Witness ==
  \E t1, t2 \in Threads :
    /\ t1 # t2
    /\ ret[t1] \in held[t1]
    /\ ret[t2] \in held[t2]
    /\ ret[t1] # ret[t2]

\* C2: in every reachable state a stream is Free exactly when the callback of
\* its Redirection Entry is null (and Allocated exactly when it is not).
C2_FreeIffNullCallback ==
  \A i \in Streams :
    /\ Free(i) <=> isr_redir[i].dma_func = 0
    /\ (i \in allocated) <=> isr_redir[i].dma_func # 0

\* One stream is Allocated while another, allocated earlier, has been released.
C2_Witness ==
  \E t \in Threads :
    /\ ret[t] \in Streams
    /\ Free(ret[t])
    /\ isr_redir[ret[t]].dma_func = 0
    /\ \E i \in allocated : isr_redir[i].dma_func # 0

\* C3: an Allocate call made when all streams are Allocated writes nothing
\* (Redirection Table, availability, registers and the handles held stay as
\* they were) and returns ResourceExhausted.
C3_ExhaustedNoSideEffect ==
  [][\A t \in Threads :
       (thr[t].pc \in {"alloc_scan", "alloc_install", "alloc_fail"}
          /\ allocated = Streams)
       => /\ allocated' = allocated
          /\ isr_redir' = isr_redir
          /\ regs' = regs
          /\ held' = held
          /\ thr'[t].pc \in {"alloc_scan", "alloc_fail", "idle"}
          /\ (thr'[t].pc = "idle" => ret'[t] = ResourceExhausted)]_vars

\* An Allocate has failed with all N streams held and their callbacks in place.
C3_Witness ==
  \E t \in Threads :
    /\ ret[t] = ResourceExhausted
    /\ thr[t].pc = "idle"
    /\ allocated = Streams
    /\ Outstanding = Streams
    /\ \A i \in Streams : isr_redir[i] \in Callbacks

\* C4: after any sequence of completed Allocate and Release calls the Free
\* streams are exactly the streams with no outstanding handle; so the set of
\* Free streams is back to its value before the sequence (all streams, from
\* the initial state) iff every handle an Allocate returned has been released.
C4_FreeSetRoundTrip ==
  Quiescent =>
    /\ FreeStreams = Streams \ Outstanding
    /\ (FreeStreams = Streams <=> Outstanding = {})

\* Every thread has allocated a stream and released it again: all are Free.
C4_Witness ==
  /\ Quiescent
  /\ \A t \in Threads : ret[t] \in Streams /\ held[t] = {}
  /\ FreeStreams = Streams


(***************************************************************************)
(* Properties of the dispatcher and of dmaStreamDisable (SpecIrq).         *)
(***************************************************************************)
RegBitNumbers == 0 .. (RegBits - 1)

\* Bit numbers of the three status flags, which are also the bit numbers of
\* their interrupt-enable bits in CCR.
FlagBits == {b \in RegBitNumbers : BitSet(STM32_DMA_ISR_MASK, b)}

\* Bit b is the enable bit or one of the three interrupt-enable bits of CCR.
EnableBit(b) ==
  \/ BitSet(STM32_DMA_CR_EN, b)
  \/ BitSet(STM32_DMA_CR_TCIE, b)
  \/ BitSet(STM32_DMA_CR_HTIE, b)
  \/ BitSet(STM32_DMA_CR_TEIE, b)

\* The enable and interrupt-enable bits of a CCR value are all clear.
EnablesClear(ccr) == \A b \in RegBitNumbers : EnableBit(b) => ~BitSet(ccr, b)

\* The three status flags of stream s are all clear in ISR.
FlagsClear(isr, s) ==
  \A b \in FlagBits : ~BitSet(isr[DmaStream(s).dma], DmaStream(s).shift + b)

\* This step is the dispatcher invoking the callback of stream irq.s.
CallStep ==
  /\ irq.pc = "call"
  /\ irq'.pc = "idle"
  /\ isr_redir[irq.s].dma_func # 0

\* Some flag the dispatcher read is enabled in the stream's CCR.
SomeFlagEnabled ==
  \E b \in FlagBits : BitSet(irq.flags, b) /\ BitSet(CCR[irq.s], b)

\* C5 as stated: the flags the dispatcher passes to the callback contain no
\* status bit whose interrupt-enable bit is clear in CCR at dispatch time.
C5_OnlyEnabledFlagsPassed ==
  [][CallStep =>
       \A b \in FlagBits :
         BitSet(last_call'.flags, b) => BitSet(CCR[irq.s], b)]_vars

\* C5 amended: the dispatcher reads the stream's three status bits of ISR,
\* aligned to bit zero, and passes every one of them that is pending to the
\* callback, enabled or not; the callback is invoked only when at least one
\* pending bit is enabled in CCR.
C5_AllPendingFlagsPassed ==
  [][/\ (irq.pc = "idle" /\ irq'.pc = "test") =>
          \A b \in RegBitNumbers :
            BitSet(irq'.flags, b) <=>
              (b \in FlagBits
                 /\ BitSet(ISR[DmaStream(irq'.s).dma], DmaStream(irq'.s).shift + b))
     /\ CallStep =>
          /\ last_call'.flags = irq.flags
          /\ last_call'.s = irq.s
          /\ SomeFlagEnabled]_vars

\* Only transfer-complete is enabled, and the callback has just been called
\* with transfer-error and transfer-complete.
C5_Witness ==
  /\ irq.pc = "idle"
  /\ last_call.s \in Streams
  /\ last_call.flags = STM32_DMA_ISR_TEIF + STM32_DMA_ISR_TCIF
  /\ CCR[last_call.s] = STM32_DMA_CR_TCIE + STM32_DMA_CR_EN
  /\ FlagsClear(ISR, last_call.s)

\* This step is the dispatcher leaving its test of the flags against CCR.
TestStep == irq.pc = "test" /\ irq'.pc # "test"

\* C6 as stated: the dispatcher clears exactly the status bits of the stream
\* that are both pending and enabled; a pending bit whose enable bit is clear
\* stays pending.
C6_AckOnlyEnabledFlags ==
  [][TestStep =>
       \A b \in FlagBits :
         BitSet(ISR'[DmaStream(irq.s).dma], DmaStream(irq.s).shift + b) <=>
           /\ BitSet(ISR[DmaStream(irq.s).dma], DmaStream(irq.s).shift + b)
           /\ ~(BitSet(irq.flags, b) /\ BitSet(CCR[irq.s], b))]_vars

\* C6 amended: when at least one status bit the dispatcher read is enabled, it
\* clears every status bit it read for the stream, enabled or not, at the
\* stream's bit offset, and no other bit of the status registers; when no bit
\* it read is enabled it writes nothing.
C6_AckAllReadFlags ==
  [][TestStep =>
       /\ \A k \in RegBitNumbers :
            BitSet(ISR'[DmaStream(irq.s).dma], k) <=>
              /\ BitSet(ISR[DmaStream(irq.s).dma], k)
              /\ ~(/\ SomeFlagEnabled
                   /\ k - DmaStream(irq.s).shift \in FlagBits
                   /\ BitSet(irq.flags, k - DmaStream(irq.s).shift))
       /\ \A d \in DmaUnits : d # DmaStream(irq.s).dma => ISR'[d] = ISR[d]]_vars

\* The dispatcher has acknowledged transfer-error and transfer-complete of a
\* stream at a non-zero bit offset that has only transfer-complete enabled.
C6_Witness ==
  /\ irq.pc = "call"
  /\ DmaStream(irq.s).shift > 0
  /\ irq.flags = STM32_DMA_ISR_TEIF + STM32_DMA_ISR_TCIF
  /\ CCR[irq.s] = STM32_DMA_CR_TCIE + STM32_DMA_CR_EN
  /\ FlagsClear(ISR, irq.s)

\* Thread t takes the step of dmaStreamDisable that writes CCR.
DisableCCRStep(t) ==
  \/ thr[t].pc = "idle" /\ thr'[t].pc = "disable_2"
  \/ thr[t].pc = "wait_disable_1" /\ thr'[t].pc = "wait_disable_2"

\* Thread t takes the last step of dmaStreamDisable.
DisableLastStep(t) ==
  \/ thr[t].pc = "disable_2" /\ thr'[t].pc = "idle"
  \/ thr[t].pc = "wait_disable_2" /\ thr'[t].pc = "wait_done"

\* C7: dmaStreamDisable, from any CCR value and any pending flags, clears the
\* enable bit and the three interrupt-enable bits of CCR, leaves every other
\* bit of CCR as it was, and ends with the stream's three status flags clear.
C7_DisableClears ==
  [][\A t \in Threads :
       /\ DisableCCRStep(t) =>
            \A b \in RegBitNumbers :
              BitSet(CCR'[thr'[t].s], b) <=>
                (BitSet(CCR[thr'[t].s], b) /\ ~EnableBit(b))
       /\ DisableLastStep(t) =>
            /\ CCR' = CCR
            /\ EnablesClear(CCR'[thr[t].s])
            /\ FlagsClear(ISR', thr[t].s)]_vars

\* A stream that was enabled in circular mode with two interrupts enabled has
\* been disabled: of its CCR only the circular-mode bit is left (a value no
\* other operation writes), and no status flag is pending.
C7_Witness ==
  \E s \in Streams :
    /\ s \in held[Driver]
    /\ thr[Driver].pc = "idle"
    /\ CCR[s] = STM32_DMA_CR_CIRC
    /\ FlagsClear(ISR, s)

\* C8: dmaStreamDisable writes CCR before it writes IFCR: in its intermediate
\* state the enable and interrupt-enable bits are already clear, so the flags
\* are never flushed while one of them is still set.
C8_DisableThenFlush ==
  \A t \in Threads :
    thr[t].pc \in {"disable_2", "wait_disable_2"} => EnablesClear(CCR[thr[t].s])

\* Disable is between its two writes: the enable bits are clear, the rest of
\* CCR is kept, and status flags are still pending.
C8_Witness ==
  \E t \in Threads :
    /\ thr[t].pc = "disable_2"
    /\ CCR[thr[t].s] = STM32_DMA_CR_PSIZE_HWORD
    /\ ~FlagsClear(ISR, thr[t].s)

(***************************************************************************)
(* Properties of dmaStartMemCopy and dmaWaitCompletion (SpecXfer).         *)
(***************************************************************************)
\* C9: the word dmaStartMemCopy writes to CCR has a bit set exactly when the
\* caller's mode has it set or it is one of MINC, PINC, DIR_M2M, EN.
C9_MemCopyModeWord ==
  [][\A t \in Threads :
       (thr[t].pc = "memcopy_ccr" /\ thr'[t].pc = "idle") =>
         \A b \in RegBitNumbers :
           BitSet(CCR'[thr[t].s], b) <=>
             \/ BitSet(thr[t].mode, b)
             \/ BitSet(STM32_DMA_CR_MINC, b)
             \/ BitSet(STM32_DMA_CR_PINC, b)
             \/ BitSet(STM32_DMA_CR_DIR_M2M, b)
             \/ BitSet(STM32_DMA_CR_EN, b)]_vars

\* A memory copy was started with half-word size and two interrupts enabled.
C9_Witness ==
  \E s \in held[Driver] :
    /\ thr[Driver].pc = "idle"
    /\ CCR[s] = STM32_DMA_CR_TCIE + STM32_DMA_CR_HTIE + STM32_DMA_CR_PSIZE_HWORD
                + STM32_DMA_CR_MINC + STM32_DMA_CR_PINC + STM32_DMA_CR_DIR_M2M
                + STM32_DMA_CR_EN
    /\ CPAR[s] \in SourceAddrs
    /\ CMAR[s] \in DestAddrs
    /\ CNDTR[s] = MaxCount

\* C10: when dmaWaitCompletion returns, CNDTR reads zero and the enable and
\* interrupt-enable bits of CCR are clear; it disables the stream, and
\* returns, only with CNDTR at zero.
C10_WaitReturnsAtZero ==
  \A t \in Threads :
    /\ thr[t].pc \in {"wait_disable_1", "wait_disable_2", "wait_done"} =>
         CNDTR[thr[t].s] = 0
    /\ thr[t].pc = "wait_done" => EnablesClear(CCR[thr[t].s])

\* dmaWaitCompletion has returned after a memory copy the hardware counted
\* down to zero.
C10_Witness ==
  \E t \in Threads :
    /\ thr[t].pc = "wait_done"
    /\ CNDTR[thr[t].s] = 0
    /\ CMAR[thr[t].s] \in DestAddrs
    /\ CCR[thr[t].s] = STM32_DMA_CR_MINC + STM32_DMA_CR_PINC + STM32_DMA_CR_DIR_M2M
    /\ FlagsClear(ISR, thr[t].s)

(***************************************************************************)
(* C11: a call of Allocate whose priority is outside 0..3 returns          *)
(* InvalidPriority with no handle and without having entered the critical  *)
(* section or touched the table; a call whose priority is inside 0..3      *)
(* never returns InvalidPriority.                                          *)
(***************************************************************************)
AllocPcs == {"alloc_check", "alloc_scan", "alloc_install", "alloc_unlock",
             "alloc_fail"}

AllocReturnStep(t) == thr[t].pc \in AllocPcs /\ thr'[t].pc = "idle"

C11_PriorityRange ==
  /\ [](\A t \in Threads :
         thr[t].pc \in (AllocPcs \ {"alloc_check"}) => thr[t].prio \in 0 .. 3)
  /\ [][\A t \in Threads :
          AllocReturnStep(t) =>
            IF thr[t].prio \in 0 .. 3
            THEN ret'[t] # InvalidPriority
            ELSE /\ ret'[t] = InvalidPriority
                 /\ held' = held
                 /\ allocated' = allocated
                 /\ isr_redir' = isr_redir
                 /\ lock' = lock]_vars

\* A call was rejected for its priority although streams were still Free.
C11_Witness ==
  /\ ret[Driver] = InvalidPriority
  /\ held[Driver] # {}
  /\ FreeStreams # {}
  /\ thr[Driver].pc = "idle"

(***************************************************************************)
(* C12: for every valid priority the stream a successful Allocate picks is *)
(* the Free stream of lowest index: when it is about to be installed it is *)
(* Free and no stream below it is, and when the handle is about to be      *)
(* returned it is Allocated and still no stream below it is Free.          *)
(***************************************************************************)
NoneFreeBelow(s) == s \in Streams /\ \A j \in Streams : j < s => ~Free(j)

C12_LowestFreeStream ==
  \A t \in Threads :
    /\ thr[t].pc = "alloc_install" => Free(thr[t].s) /\ NoneFreeBelow(thr[t].s)
    /\ thr[t].pc = "alloc_unlock" => ~Free(thr[t].s) /\ NoneFreeBelow(thr[t].s)

\* The highest valid priority asked for a stream while the first entry of
\* the table was taken and two later ones were Free: it got the lower one.
C12_Witness ==
  /\ thr[Driver].pc = "alloc_unlock"
  /\ thr[Driver].prio = 3
  /\ thr[Driver].s = 1
  /\ Free(2)

(***************************************************************************)
(* Properties of Release and the dispatcher together (SpecRel).            *)
(***************************************************************************)
\* Thread t takes the step of Release that disables and frees its stream.
ReleaseStep(t) == thr[t].pc = "release_body" /\ thr'[t].pc = "release_unlock"

\* This step is the dispatcher calling the callback of stream irq.s.
InvokeStep == irq.pc = "invoke" /\ irq'.pc = "idle"

\* C13: Release leaves the enable and interrupt-enable bits of the stream
\* clear and its callback null; they stay so while the stream is Free, and
\* the dispatcher calls a callback only for a stream that is Allocated and
\* whose handle some thread holds: between Release and the return of the
\* next Allocate of the stream no callback is called for it, whatever flags
\* the hardware raises meanwhile.
C13_NoCallbackAfterRelease ==
  /\ [][\A t \in Threads :
          ReleaseStep(t) =>
            /\ EnablesClear(CCR'[thr[t].s])
            /\ isr_redir'[thr[t].s].dma_func = 0
            /\ Free(thr[t].s)']_vars
  /\ [](\A i \in Streams :
         Free(i) => EnablesClear(CCR[i]) /\ isr_redir[i].dma_func = 0)
  /\ [][InvokeStep => ~Free(irq.s) /\ irq.s \in Outstanding]_vars

\* The dispatcher has read pending flags of a stream that is Free now and
\* whose callback it had called while the stream was Allocated.
C13_Witness ==
  /\ irq.pc = "test"
  /\ Free(irq.s)
  /\ irq.flags # 0
  /\ last_call.s = irq.s
  /\ last_call.flags # 0

\* C17: whenever the dispatcher calls a callback for a stream, the function
\* is not null and the function and parameter it uses are the pair that the
\* thread holding the stream installed with its Allocate, the most recent
\* Allocate of the stream.
C17_CallbackPairOfLastAllocate ==
  [][InvokeStep =>
       /\ last_call'.dma_func # 0
       /\ isr_redir[irq.s].dma_func # 0
       /\ \E t \in Threads :
            /\ irq.s \in held[t]
            /\ last_call'.dma_func = ThreadCallback(t).dma_func
            /\ last_call'.dma_param = ThreadCallback(t).dma_param]_vars

\* The dispatcher is about to call the callback of a stream's second owner,
\* after having called the callback of the first one for the same stream.
C17_Witness ==
  \E t, u \in Threads :
    /\ t # u
    /\ irq.pc = "invoke"
    /\ irq.s \in held[u]
    /\ isr_redir[irq.s] = ThreadCallback(u)
    /\ last_call.s = irq.s
    /\ last_call.dma_func = ThreadCallback(t).dma_func
    /\ last_call.dma_param = ThreadCallback(t).dma_param

(***************************************************************************)
(* Frame properties of dmaStreamEnable and dmaStreamClearInterrupt.        *)
(***************************************************************************)
\* C14: a step of Enable on stream s sets the enable bit of the CCR of s and
\* leaves every other bit of it as it was; the CCR of every other stream
\* and the count, address and status registers are not written.
C14_EnableSetsOnlyEN ==
  [][\A t \in Threads :
       Enable(t) =>
         \E s \in held[t] :
           /\ \A i \in Streams, b \in RegBitNumbers :
                BitSet(CCR'[i], b) <=>
                  (BitSet(CCR[i], b) \/ (i = s /\ BitSet(STM32_DMA_CR_EN, b)))
           /\ CNDTR' = CNDTR
           /\ CPAR' = CPAR
           /\ CMAR' = CMAR
           /\ ISR' = ISR
           /\ isr_redir' = isr_redir]_vars

\* A stream programmed as circular with half-transfer and transfer-error
\* interrupts has been enabled: those bits are still there beside EN.
C14_Witness ==
  \E s \in held[Driver] :
    CCR[s] = STM32_DMA_CR_HTIE + STM32_DMA_CR_TEIE + STM32_DMA_CR_CIRC
               + STM32_DMA_CR_EN

\* C15: a step of ClearInterrupt on stream s clears the three status flags
\* of s at its shift offset in the status register of its DMA unit and no
\* other bit of any status register, so the pending flags of the other
\* streams of the unit stay pending; no control, count or address register
\* is written.
C15_ClearOnlyOwnFlags ==
  [][\A t \in Threads :
       ClearInterrupt(t) =>
         \E s \in held[t] :
           /\ \A d \in DmaUnits, k \in RegBitNumbers :
                BitSet(ISR'[d], k) <=>
                  /\ BitSet(ISR[d], k)
                  /\ ~(d = DmaStream(s).dma
                         /\ k - DmaStream(s).shift \in FlagBits)
           /\ CCR' = CCR
           /\ CNDTR' = CNDTR
           /\ CPAR' = CPAR
           /\ CMAR' = CMAR]_vars

\* Two enabled streams share a status register: the one at the non-zero
\* shift has no flag pending while all three flags of the other one are.
C15_Witness ==
  \E s1, s2 \in Outstanding :
    /\ DmaStream(s1).dma = DmaStream(s2).dma
    /\ DmaStream(s1).shift = 0
    /\ DmaStream(s2).shift > 0
    /\ Enabled(s1) /\ Enabled(s2)
    /\ StreamFlags(s1) = STM32_DMA_ISR_MASK
    /\ StreamFlags(s2) = 0
    /\ CCR[s2] # CCR[s1]

(***************************************************************************)
(* C16: no call of CFE_PSP_Panic or CFE_PSP_Restart returns to its caller: *)
(* no thread is ever back in its caller from one of the two hooks, and so  *)
(* no later step of the calling code runs.                                 *)
(***************************************************************************)
C16_HooksNeverReturn == \A t \in Threads : psp[t].pc # "returned"

(***************************************************************************)
(* Properties of dmaStartMemCopy and dmaWaitCompletion (SpecXfer).         *)
(***************************************************************************)
\* Positions inside dmaStartMemCopy: after the write of CPAR, of CMAR and of
\* CNDTR; the write of CCR is the one still to come.
MemCopyPcs == {"memcopy_cmar", "memcopy_cndtr", "memcopy_ccr"}

\* C18 as stated: in no state inside dmaStartMemCopy in which the destination
\* address or the count has not been written yet is the stream enabled.
C18_NeverEnabledWithOldValues ==
  \A t \in Threads :
    thr[t].pc \in {"memcopy_cmar", "memcopy_cndtr"} => ~Enabled(thr[t].s)

\* C18 amended: dmaStartMemCopy writes CPAR, CMAR, CNDTR and CCR in this
\* order; the first three writes leave CCR as it was, so a stream that is
\* not enabled at the call stays not enabled until the three registers hold
\* the new values, and the enable bit is set by the last write only; a
\* stream that is still enabled at the call stays enabled throughout.
C18_EnableWrittenLast ==
  /\ [](\A t \in Threads :
         LET s == thr[t].s IN
           /\ thr[t].pc \in MemCopyPcs => CPAR[s] = thr[t].src
           /\ thr[t].pc \in {"memcopy_cndtr", "memcopy_ccr"} =>
                CMAR[s] = thr[t].dst
           /\ (thr[t].pc = "memcopy_ccr" /\ ~Enabled(s)) =>
                CNDTR[s] = thr[t].n)
  /\ [][\A t \in Threads :
          /\ (thr'[t].pc \in MemCopyPcs /\ thr'[t].pc # thr[t].pc) =>
               CCR' = CCR
          /\ (thr[t].pc = "memcopy_ccr" /\ thr'[t].pc = "idle") =>
               /\ Enabled(thr[t].s)'
               /\ CPAR' = CPAR /\ CMAR' = CMAR /\ CNDTR' = CNDTR]_vars

\* A second copy is being set up on a stream that was disabled after the
\* first: source and destination are written, the count is still the old
\* zero, and the stream is not enabled.
C18_Witness ==
  \E t \in Threads :
    /\ thr[t].pc = "memcopy_cndtr"
    /\ ~Enabled(thr[t].s)
    /\ BitAnd(CCR[thr[t].s], STM32_DMA_CR_DIR_M2M) # 0
    /\ CNDTR[thr[t].s] = 0
    /\ thr[t].n > 0
    /\ CPAR[thr[t].s] = thr[t].src
    /\ CMAR[thr[t].s] = thr[t].dst

\* C19: under SpecXferFair, a dmaWaitCompletion that polls an enabled stream
\* with a count above zero eventually returns; and in every behaviour a
\* dmaWaitCompletion that polls a stream with a count above zero that is
\* not enabled stays in its loop with the count where it is, for ever:
\* the loop is left only at count zero and there is no timeout.
C19_WaitTerminatesIffProgress ==
  /\ \A t \in Threads :
       (thr[t].pc = "wait_poll" /\ Enabled(thr[t].s) /\ CNDTR[thr[t].s] > 0)
         ~> (thr[t].pc = "wait_done")
  /\ [][\A t \in Threads :
          /\ (thr[t].pc = "wait_poll" /\ thr'[t].pc # "wait_poll") =>
               CNDTR[thr[t].s] = 0
          /\ (thr[t].pc = "wait_poll" /\ ~Enabled(thr[t].s)
                 /\ CNDTR[thr[t].s] > 0) =>
               /\ thr'[t] = thr[t]
               /\ CNDTR' = CNDTR
               /\ CCR' = CCR]_vars

\* dmaWaitCompletion polls a stream on which a copy of the largest count
\* has just been started: enabled, and nothing transferred yet.
C19_Witness ==
  \E t \in Threads :
    /\ thr[t].pc = "wait_poll"
    /\ Enabled(thr[t].s)
    /\ CNDTR[thr[t].s] = MaxCount
    /\ BitAnd(CCR[thr[t].s], STM32_DMA_CR_DIR_M2M) # 0

(***************************************************************************)
(* C20: one dispatch reads the status register once (the flags it works on *)
(* stay those of the read), writes the acknowledge before the callback is  *)
(* called (the step that clears the flags it read calls nothing, the step  *)
(* that calls the callback writes no status bit and ends the dispatch, so  *)
(* there is at most one call).  Hence a flag raised after the acknowledge  *)
(* is still pending when the dispatch returns, and a flag that was         *)
(* acknowledged is clear until the hardware, and nothing else, raises it   *)
(* again.                                                                  *)
(***************************************************************************)
C20_ReadOnceAckBeforeCall ==
  [][/\ (irq.pc # "idle" /\ irq'.pc # "idle") =>
          irq'.flags = irq.flags /\ irq'.s = irq.s
     /\ (irq.pc = "test" /\ irq'.pc = "call") =>
          /\ last_call' = last_call
          /\ \A b \in FlagBits :
               BitSet(irq.flags, b) =>
                 ~BitSet(ISR'[DmaStream(irq.s).dma], DmaStream(irq.s).shift + b)
     /\ last_call' # last_call => CallStep
     /\ CallStep =>
          /\ ISR' = ISR
          /\ irq' = IrqIdle
          /\ last_call'.flags = irq.flags
     /\ (\E d \in DmaUnits, k \in RegBitNumbers :
           BitSet(ISR'[d], k) /\ ~BitSet(ISR[d], k)) =>
          irq' = irq /\ thr' = thr /\ CCR' = CCR /\ last_call' = last_call]_vars

\* Transfer-complete was read and acknowledged, the hardware has raised it
\* again together with half-transfer, and the callback is not called yet.
C20_Witness ==
  /\ irq.pc = "call"
  /\ irq.flags = STM32_DMA_ISR_TCIF
  /\ StreamFlags(irq.s) = STM32_DMA_ISR_TCIF + STM32_DMA_ISR_HTIF
  /\ last_call.flags = STM32_DMA_ISR_TCIF

====
